---------------------------- MODULE Spec2Model ----------------------------
(***************************************************************************)
(* A model of the CDC card reader: the SPI card engine (src/src/sd.rs) and *)
(* the host link engine (src/src/driver.rs).                               *)
(*                                                                         *)
(* The SPI bus is modelled at the level of txrx: every byte the code sends *)
(* is appended to `mosi`, every byte it reads is taken from the answer the *)
(* card gives (`pre`, then `rest` repeated for ever).  u32 and u64 values  *)
(* that can exceed 2^31 (sector addresses) are held as little-endian byte  *)
(* sequences, because TLC integers are 32 bits wide.                       *)
(***************************************************************************)
EXTENDS Integers, Sequences, FiniteSets, TLC

(* ------------------------------------------------------------------ *)
(* Protocol constants (driver.rs:8-27)                                *)
(* ------------------------------------------------------------------ *)
CMD_STATUS == 2
CMD_READ == 3
CMD_WRITE == 4
CMD_END == 243
CMD_STATUS_GENERAL == 0
CMD_STATUS_INIT == 1

Ok == 1
SerialFault == 128
SdFault == 129
SdTimeout == 130
SdNotReady == 131
SdTransportFault == 132

\* cmd_buffer: [u8; 32]
CmdBufLen == 32
\* length of a READ / WRITE frame and of a STATUS frame
AddrFrameLen == 10
StatusFrameLen == 2

(* ------------------------------------------------------------------ *)
(* Bounds of the model                                                *)
(* ------------------------------------------------------------------ *)
\* Sector size.  The code's sector is 512 bytes (WRITEBUF: [u8; 512],
\* buf: [u8; 512]); the model is parametric in it and is checked with a
\* small sector so that every payload content can be enumerated.
SectorSize == 3

Byte == 0..255
Idle == 255
\* what a txrx answers when the SPI peripheral reports an error
SPIERR == 0 - 1

(* ------------------------------------------------------------------ *)
(* Small helpers                                                      *)
(* ------------------------------------------------------------------ *)
Rep(b, n) == IF n <= 0 THEN <<>> ELSE <<>> \o [i \in 1..n |-> b]

\* a u32 / u64 as little-endian bytes
U32(b0, b1, b2, b3) == <<b0, b1, b2, b3>>
\* an integer below 2^31 as an 8-byte little-endian u64
u64(n) == << n % 256, (n \div 256) % 256, (n \div 65536) % 256,
             (n \div 16777216) % 256, 0, 0, 0, 0 >>
u64_MAX == Rep(255, 8)
\* `x as u32` of a u64
as_u32(w) == SubSeq(w, 1, 4)
\* the integer a u32 stands for, when it is below 2^30
Small(w) == w[4] < 64
ToInt(w) == w[1] + 256 * w[2] + 65536 * w[3] + 16777216 * w[4]

(* ------------------------------------------------------------------ *)
(* SpiSdCard (sd.rs)                                                  *)
(* The card engine's state while an operation runs: the answer of the  *)
(* card (pre, rest) and how far it has been read (pos), the bytes sent *)
(* so far (mosi) and                                                   *)
(* chip-select (cs_low = asserted).                                    *)
(* Every operation returns [s, kind, val, err]: kind "ok" with a value *)
(* val, "err" with an SdCardError err, "panic" (todo!()), or "hang" (a *)
(* loop that never ends).                                              *)
(* ------------------------------------------------------------------ *)
SdCardError == {"SpiError", "Timeout", "InvalidResponse"}

Bus(ans, cs) == [pre |-> ans.pre, rest |-> ans.rest, pos |-> 1, mosi |-> <<>>,
                 cs_low |-> cs]

RetOk(s, v) == [s |-> s, kind |-> "ok", val |-> v, err |-> "none"]
RetErr(s, e) == [s |-> s, kind |-> "err", val |-> 0, err |-> e]
RetPanic(s) == [s |-> s, kind |-> "panic", val |-> 0, err |-> "none"]
RetHang(s) == [s |-> s, kind |-> "hang", val |-> 0, err |-> "none"]

\* sd.rs:44-48
txrx(s, w) ==
    IF (IF s.pos > Len(s.pre) THEN s.rest ELSE s.pre[s.pos]) = SPIERR
    THEN RetErr([s EXCEPT !.pos = @ + 1, !.mosi = Append(@, w)], "SpiError")
    ELSE RetOk([s EXCEPT !.pos = @ + 1, !.mosi = Append(@, w)],
               IF s.pos > Len(s.pre) THEN s.rest ELSE s.pre[s.pos])

\* Rust's `?`: return r from the function unless it is Ok, else go on with it
Try(r, Then(_)) == IF r.kind # "ok" THEN r ELSE Then(r)

\* `let v = ...;`
Let(v, In(_)) == In(v)

\* A run of txrx calls, taken in one step.  Miso(s, k) is what the k-th
\* call from s on receives, Clocked(s, ws, k) is s after k calls that send
\* ws[1..k], and Calls(s, n, Stop) is the number of calls a loop of at most
\* n turns makes when it leaves on an SPI error (`?`) or on a byte that
\* satisfies Stop.
Miso(s, k) == IF s.pos + k - 1 > Len(s.pre) THEN s.rest ELSE s.pre[s.pos + k - 1]
Clocked(s, ws, k) ==
    [s EXCEPT !.pos = @ + k, !.mosi = @ \o SubSeq(ws, 1, k)]
Calls(s, n, Stop(_)) ==
    IF \E k \in 1..n : Miso(s, k) = SPIERR \/ Stop(Miso(s, k))
    THEN CHOOSE k \in 1..n :
            /\ Miso(s, k) = SPIERR \/ Stop(Miso(s, k))
            /\ \A j \in 1..(k - 1) : Miso(s, j) # SPIERR /\ ~Stop(Miso(s, j))
    ELSE n
Never(b) == FALSE

\* consecutive `self.txrx(w)?` calls, the received bytes collected
txrx_all(s, ws, got) ==
    Let(Calls(s, Len(ws), Never), LAMBDA k :
        IF k > 0 /\ Miso(s, k) = SPIERR
        THEN RetErr(Clocked(s, ws, k), "SpiError")
        ELSE RetOk(Clocked(s, ws, k),
                   IF k = 0 THEN got ELSE got \o [i \in 1..k |-> Miso(s, i)]))

\* sd.rs:60-67: the response poll of send_cmd
SendCmdPolls == 10
R1(b) == b < 128
send_cmd_poll(s, n) ==
    IF n = 0 THEN RetErr(s, "InvalidResponse")
    ELSE Let(Calls(s, n, R1), LAMBDA k :
             IF Miso(s, k) = SPIERR THEN RetErr(Clocked(s, Rep(255, k), k), "SpiError")
             ELSE IF Miso(s, k) < 128 THEN RetOk(Clocked(s, Rep(255, k), k), Miso(s, k))
             ELSE RetErr(Clocked(s, Rep(255, k), k), "InvalidResponse"))

\* sd.rs:50-68.  arg is a u32 (little-endian bytes), sent high byte first.
send_cmd(s, cmd, crc, arg) ==
    Try(txrx_all(s, <<cmd, arg[4], arg[3], arg[2], arg[1], crc>>, <<>>),
        LAMBDA t : send_cmd_poll(t.s, SendCmdPolls))

\* sd.rs:77-82, 109-114, 154-160: `for _ in 0..n { tmp = txrx(0xFF)?;
\* if tmp != 0xFF { break; } }`; val is tmp after the loop
NotIdle(b) == b # 255
poll_not_idle(s, n, tmp) ==
    IF n = 0 THEN RetOk(s, tmp)
    ELSE Let(Calls(s, n, NotIdle), LAMBDA k :
             IF Miso(s, k) = SPIERR THEN RetErr(Clocked(s, Rep(255, k), k), "SpiError")
             ELSE RetOk(Clocked(s, Rep(255, k), k), Miso(s, k)))

cs_set(s, low) == [s EXCEPT !.cs_low = low]

\* sd.rs:70-98
ReadTokenPolls == 10
read_sector(s0, addr) ==
    Try(send_cmd(cs_set(s0, TRUE), 64 + 17, 0, addr), LAMBDA c :
    Try(poll_not_idle(c.s, ReadTokenPolls, 0), LAMBDA p :
        IF p.val = 254
        THEN Try(txrx_all(p.s, Rep(255, SectorSize), <<>>), LAMBDA d :
             Try(txrx_all(d.s, <<255, 255>>, <<>>), LAMBDA k :
                 RetOk(cs_set(k.s, FALSE), d.val)))
        ELSE RetErr(cs_set(p.s, FALSE), "InvalidResponse")))

\* sd.rs:128-133: the data-response poll; val is tmp after the loop
DataRespPolls == 64
WriteReadyPolls == 10
DataAccepted(b) == b % 32 = 5
poll_data_resp(s, n, tmp) ==
    IF n = 0 THEN RetOk(s, tmp)
    ELSE Let(Calls(s, n, DataAccepted), LAMBDA k :
             IF Miso(s, k) = SPIERR THEN RetErr(Clocked(s, Rep(255, k), k), "SpiError")
             ELSE RetOk(Clocked(s, Rep(255, k), k), Miso(s, k)))

\* sd.rs:140-142: `while self.txrx(0xFF)? == 0 {}`.  Once the card's answer
\* has run out and it repeats 0 for ever, the loop never ends.
NotBusy(b) == b # 0
Left(s) == IF s.pos > Len(s.pre) THEN 0 ELSE Len(s.pre) - s.pos + 1
busy_wait(s) ==
    IF \A k \in 1..(Left(s) + 1) : Miso(s, k) = 0
    THEN RetHang(Clocked(s, Rep(255, Left(s)), Left(s)))
    ELSE Let(Calls(s, Left(s) + 1, NotBusy), LAMBDA k :
             IF Miso(s, k) = SPIERR THEN RetErr(Clocked(s, Rep(255, k), k), "SpiError")
             ELSE RetOk(Clocked(s, Rep(255, k), k), 0))

\* write_sector without the data start token of sd.rs:118
write_sector_no_token(s0, addr, buf) ==
    Try(send_cmd(cs_set(s0, TRUE), 64 + 24, 0, addr), LAMBDA c :
    Try(poll_not_idle(c.s, WriteReadyPolls, 0), LAMBDA p :
        IF p.val = 255
        THEN Try(txrx_all(p.s, buf \o <<255, 255>>, <<>>), LAMBDA d :
             Try(poll_data_resp(d.s, DataRespPolls, p.val), LAMBDA r :
             Try(busy_wait(r.s), LAMBDA w :
                 IF r.val % 32 = 5 THEN RetOk(w.s, 0)
                 ELSE RetErr(w.s, "InvalidResponse"))))
        ELSE RetErr(p.s, "InvalidResponse")))

\* sd.rs:100-148
write_sector(s0, addr, buf) ==
    Try(send_cmd(cs_set(s0, TRUE), 64 + 24, 0, addr), LAMBDA c :
    Try(poll_not_idle(c.s, WriteReadyPolls, 0), LAMBDA p :
        IF p.val = 255
        THEN Try(txrx_all(p.s, <<254>> \o buf \o <<255, 255>>, <<>>), LAMBDA d :
             Try(poll_data_resp(d.s, DataRespPolls, p.val), LAMBDA r :
             Try(busy_wait(r.s), LAMBDA w :
                 IF r.val % 32 = 5 THEN RetOk(w.s, 0)
                 ELSE RetErr(w.s, "InvalidResponse"))))
        ELSE RetErr(p.s, "InvalidResponse")))

\* sd.rs:150-178
RxBlockPolls == 10
rx_data_block(s, len) ==
    Try(poll_not_idle(s, RxBlockPolls, 0), LAMBDA p :
        IF p.val = 255 THEN RetErr(p.s, "Timeout")
        ELSE IF p.val # 254 THEN RetErr(p.s, "InvalidResponse")
        ELSE Try(txrx_all(p.s, Rep(255, len), <<>>), LAMBDA d :
             Try(txrx_all(d.s, <<255, 255>>, <<>>), LAMBDA k :
                 RetOk(k.s, d.val))))

\* sd.rs:187-190: the capacity the code derives from the register
CsdLen == 16
csd_size(csd) == (csd[10] + csd[9] * 256 + 1) * 1024

\* sd.rs:180-199
get_capacity(s) ==
    Try(send_cmd(s, 64 + 9, 0, U32(1, 0, 0, 0)), LAMBDA c :
        IF c.val = 0
        THEN Try(rx_data_block(c.s, CsdLen), LAMBDA b :
                 IF b.val[1] \div 64 = 1 THEN RetOk(b.s, csd_size(b.val))
                 ELSE RetPanic(b.s))
        ELSE RetPanic(c.s))

\* sd.rs:240-254: the application-init retry loop
InitRetries == 10
\* sd.rs:241-252: one turn of the loop; `left` says the loop goes on, and
\* a turn that ends it with R1 = 0 is followed by get_capacity
init_turn(s) ==
    Let(Try(send_cmd(s, 64 + 55, 0, U32(0, 0, 0, 0)), LAMBDA a :
            send_cmd(a.s, 64 + 41, 0, U32(0, 0, 0, 64))), LAMBDA b :
        [left |-> b.kind = "ok" /\ b.val # 0, r |-> b])
\* n >= 1 turns of the loop, as the first half of them and then the rest
RECURSIVE init_turns(_, _)
init_turns(s, n) ==
    IF n = 1 THEN init_turn(s)
    ELSE Let(init_turns(s, n \div 2), LAMBDA h :
             IF h.left THEN init_turns(h.r.s, n - (n \div 2)) ELSE h)
init_retry(s, n) ==
    IF n = 0 THEN RetErr(s, "Timeout")
    ELSE Let(init_turns(s, n), LAMBDA h :
             IF h.left THEN RetErr(h.r.s, "Timeout")
             ELSE IF h.r.kind = "ok" THEN get_capacity(h.r.s)
             ELSE h.r)

\* sd.rs:207-216: the wake-up clocks and CMD0
go_idle(s) ==
    Try(txrx_all(s, Rep(255, 10), <<>>), LAMBDA w :
    Try(send_cmd(w.s, 64, 149, U32(0, 0, 0, 0)), LAMBDA c0 :
    Try(txrx(c0.s, 255), LAMBDA t0 :
        IF c0.val % 128 # 1 THEN RetErr(t0.s, "InvalidResponse")
        ELSE RetOk(t0.s, 0))))

\* sd.rs:219-232: CMD8
if_cond(s) ==
    Try(send_cmd(s, 64 + 8, 134, U32(170, 1, 0, 0)), LAMBDA c8 :
    Try(IF c8.val = 1 THEN txrx_all(c8.s, Rep(255, 4), <<>>)
        ELSE RetOk(c8.s, <<>>), LAMBDA e8 :
    Try(txrx(e8.s, 255), LAMBDA t8 :
        IF c8.val # 1 THEN RetErr(t8.s, "InvalidResponse")
        ELSE RetOk(t8.s, 0))))

\* sd.rs:235-237: the first ACMD41
app_init(s) ==
    Try(send_cmd(s, 64 + 55, 0, U32(0, 0, 0, 0)), LAMBDA a :
        send_cmd(a.s, 64 + 41, 0, U32(0, 0, 0, 64)))

\* sd.rs:205-255
init_inner(s) ==
    Try(Try(Try(go_idle(s),
            LAMBDA i : if_cond(i.s)),
            LAMBDA v : app_init(v.s)),
            LAMBDA b : init_retry(b.s, InitRetries))

\* sd.rs:12-17
StatusInit == [tag |-> "Init", cap |-> 0]
StatusFailed == [tag |-> "Failed", cap |-> 0]
StatusReady(cap) == [tag |-> "Ready", cap |-> cap]

\* sd.rs:262-270: the status init leaves.  A panic inside init_inner
\* leaves the status Init that init set on entry (sd.rs:258).
init_status(r) ==
    IF r.kind = "ok" THEN StatusReady(r.val)
    ELSE IF r.kind = "err" THEN StatusFailed
    ELSE StatusInit

\* sd.rs:257-271.  Returns the result of init_inner, chip-select released
\* unless init_inner panicked, and the card status.
init_done(r) ==
    [s |-> IF r.kind \in {"ok", "err"} THEN cs_set(r.s, FALSE) ELSE r.s,
     kind |-> r.kind, val |-> r.val, err |-> r.err, status |-> init_status(r)]
init(s0) == init_done(init_inner(cs_set(s0, TRUE)))

(* ------------------------------------------------------------------ *)
(* The card (environment).  An answer is the byte stream the card puts *)
(* on MISO during one operation: `pre`, then `rest` for ever.          *)
(* ------------------------------------------------------------------ *)
Answer(kind, pre, rest) == [kind |-> kind, pre |-> pre, rest |-> rest]
NoAnswer == Answer("none", <<>>, Idle)

\* MISO during a command: idle while the 6 command bytes are clocked and
\* for `delay` more bytes, then the R1 response
CmdReply(delay, r1) == Rep(Idle, 6 + delay) \o <<r1>>

\* the 16-byte geometry register of a card: byte 0 carries the layout
\* version in its top two bits, bytes 7..9 the 22-bit size field
Csd(b0, b7, b8, b9) == <<b0, 0, 0, 0, 0, 0, 0, b7, b8, b9, 0, 0, 0, 0, 0, 0>>
Cards == { Csd(64, 0, 1, 255), Csd(64, 1, 0, 2), Csd(0, 0, 0, 0) }
\* the number of sectors the card really has (v2 layout, 22-bit field)
CardSectors(csd) == ((csd[8] % 64) * 65536 + csd[9] * 256 + csd[10] + 1) * 1024
InRange(csd, addr) == Small(addr) /\ ToInt(addr) < CardSectors(csd)

\* the sector addresses (u32) the host's frames can name
AddrLow == {1}
AddrHigh == {0, 128}
HostAddrs == { U32(l, 0, 0, h) : l \in AddrLow, h \in AddrHigh }
DiskAddrs == { a \in HostAddrs : \A c \in Cards : InRange(c, a) }
BlankSector == Rep(0, SectorSize)

\* what the card decodes from the bytes it was sent
CardCmd(mosi) == IF Len(mosi) >= 6 THEN mosi[1] ELSE 0
CardAddr(mosi) == IF Len(mosi) >= 6 THEN U32(mosi[5], mosi[4], mosi[3], mosi[2])
                  ELSE U32(0, 0, 0, 0)
\* the index of the data-start token the card sees after the command
TokenAt(mosi) ==
    LET at == { i \in 7..Len(mosi) : mosi[i] = 254 }
    IN  IF at = {} THEN 0 ELSE CHOOSE i \in at : \A j \in at : i <= j
CardData(mosi) ==
    LET i == TokenAt(mosi)
    IN  IF i > 0 /\ Len(mosi) >= i + SectorSize
        THEN SubSeq(mosi, i + 1, i + SectorSize) ELSE <<>>

\* answers to a single-block read of a sector holding `data`
ReadAnswers(dsk) ==
    { Answer("data", CmdReply(d, 0) \o Rep(Idle, t) \o <<254>> \o dsk[a] \o <<0, 0>>, Idle)
        @@ [addr |-> a] : d \in {0, 9}, t \in {0, 9}, a \in DiskAddrs }
    \cup { Answer("late_r1", CmdReply(SendCmdPolls, 0) \o <<254>>, Idle),
           Answer("late_token", CmdReply(0, 0) \o Rep(Idle, ReadTokenPolls) \o <<254>>, Idle),
           Answer("reject", CmdReply(0, 64), Idle),
           Answer("error_token", CmdReply(0, 0) \o <<9>>, Idle),
           Answer("spi_error", <<SPIERR>>, Idle),
           Answer("spi_error_data", CmdReply(0, 0) \o <<254, 0, SPIERR>>, Idle),
           Answer("absent", <<>>, Idle) }

\* answers to a single-block write
WriteAcceptPre(d, r, busy) ==
    CmdReply(d, 0) \o Rep(Idle, WriteReadyPolls + 1 + SectorSize + 2)
        \o Rep(Idle, r) \o <<229>> \o Rep(0, busy)
WriteAnswers ==
    { Answer("accept", WriteAcceptPre(d, r, busy), Idle) :
        d \in {0, 9}, r \in {0, DataRespPolls - 1}, busy \in {0, 2} }
    \cup { Answer("accept_stuck", WriteAcceptPre(0, 0, 1), 0),
           Answer("late_resp", WriteAcceptPre(0, DataRespPolls, 0), Idle),
           Answer("late_r1", CmdReply(SendCmdPolls, 0), Idle),
           Answer("crc_reject", CmdReply(0, 0)
                \o Rep(Idle, WriteReadyPolls + 1 + SectorSize + 2) \o <<235>>, Idle),
           Answer("not_ready", CmdReply(0, 0) \o <<0>>, Idle),
           Answer("reject", CmdReply(0, 64), Idle),
           Answer("spi_error", <<SPIERR>>, Idle),
           Answer("spi_error_busy", WriteAcceptPre(0, 0, 1) \o <<SPIERR>>, Idle),
           Answer("absent", <<>>, Idle) }

\* answers to the init handshake of a card with register `csd`: the card
\* leaves idle state on the k-th application-init attempt
RECURSIVE InitTries(_)
InitTries(k) == IF k <= 1 THEN CmdReply(0, 1) \o CmdReply(0, 0)
                ELSE CmdReply(0, 1) \o CmdReply(0, 1) \o InitTries(k - 1)
InitPre(k) ==
    Rep(Idle, 10) \o CmdReply(0, 1) \o <<Idle>>
        \o CmdReply(0, 1) \o <<0, 0, 1, 170>> \o <<Idle>>
        \o CmdReply(0, 1) \o CmdReply(0, 1)
        \o InitTries(k)
CsdBlock(csd, t) == Rep(Idle, t) \o <<254>> \o csd \o <<0, 0>>
InitAnswers(csd) ==
    { Answer("ready", InitPre(k) \o CmdReply(0, 0) \o CsdBlock(csd, t), Idle) :
        k \in {1, InitRetries}, t \in {0, RxBlockPolls - 1} }
    \cup { Answer("never_ready", InitPre(InitRetries + 1), 1),
           Answer("late_csd", InitPre(1) \o CmdReply(0, 0) \o CsdBlock(csd, RxBlockPolls), Idle),
           Answer("bad_csd_token", InitPre(1) \o CmdReply(0, 0) \o <<0>>, Idle),
           Answer("csd_refused", InitPre(1) \o CmdReply(0, 4), Idle),
           Answer("not_idle", Rep(Idle, 10) \o CmdReply(0, 0), Idle),
           Answer("no_if_cond", Rep(Idle, 10) \o CmdReply(0, 1) \o <<Idle>>
                \o CmdReply(0, 5), Idle),
           Answer("spi_error", <<SPIERR>>, Idle),
           Answer("spi_error_late", InitPre(1) \o <<SPIERR>>, Idle),
           Answer("absent", <<>>, Idle) }

(* ------------------------------------------------------------------ *)
(* Driver (driver.rs)                                                 *)
(* ------------------------------------------------------------------ *)
\* driver.rs:29-33
NoCmd == [op |-> "None", mode |-> 0, lba |-> u64(0)]
CmdStatus(mode) == [op |-> "Status", mode |-> mode, lba |-> u64(0)]
CmdRead(lba) == [op |-> "Read", mode |-> 0, lba |-> lba]
CmdWrite(lba) == [op |-> "Write", mode |-> 0, lba |-> lba]

\* driver.rs:35-38, 48: write: Option<PendingWrite>
NoWrite == [some |-> FALSE, lba |-> u64(0), off |-> 0]
PendingWrite(lba, off) == [some |-> TRUE, lba |-> lba, off |-> off]

\* driver.rs:72-81: the u64 of 8 little-endian bytes
read_dword_le(b) == <<b[1], b[2], b[3], b[4], b[5], b[6], b[7], b[8]>>

\* driver.rs:83-91
StatusFrom(e) ==
    CASE e = "SpiError" -> SdTransportFault
      [] e = "Timeout" -> SdTimeout
      [] e = "InvalidResponse" -> SdFault

\* driver.rs:93-125
try_from(bytes) ==
    IF bytes = <<>> THEN [kind |-> "err", cmd |-> NoCmd]
    ELSE IF bytes[1] = CMD_STATUS
    THEN IF Len(bytes) # StatusFrameLen THEN [kind |-> "err", cmd |-> NoCmd]
         ELSE [kind |-> "ok", cmd |-> CmdStatus(bytes[2])]
    ELSE IF bytes[1] = CMD_READ
    THEN IF Len(bytes) # AddrFrameLen THEN [kind |-> "err", cmd |-> NoCmd]
         ELSE [kind |-> "ok", cmd |-> CmdRead(read_dword_le(Tail(bytes)))]
    ELSE IF bytes[1] = CMD_WRITE
    THEN IF Len(bytes) # AddrFrameLen THEN [kind |-> "err", cmd |-> NoCmd]
         ELSE [kind |-> "ok", cmd |-> CmdWrite(read_dword_le(Tail(bytes)))]
    ELSE [kind |-> "panic", cmd |-> NoCmd]

\* driver.rs:127-131, 51-70: the bytes a response puts on the link
send_byte(d, b) == [d EXCEPT !.resp = Append(@, b)]
send_word_le(d, w) == send_byte(send_byte(send_byte(send_byte(d, w[1]), w[2]), w[3]), w[4])
send_dword_le(d, w) == send_word_le(send_word_le(d, SubSeq(w, 1, 4)), SubSeq(w, 5, 8))
RECURSIVE send_bytes(_, _)
send_bytes(d, bs) == IF bs = <<>> THEN d ELSE send_bytes(send_byte(d, Head(bs)), Tail(bs))

\* one card operation as the step records it: what was asked of the card
\* engine, how the card answered, what the engine returned, and what the
\* card decoded from the bus
CardOp(op, addr, buf, ans, r) ==
    [op |-> op, addr |-> addr, buf |-> buf, ans |-> ans.kind,
     kind |-> r.kind, err |-> r.err,
     seen_cmd |-> CardCmd(r.s.mosi), seen_addr |-> CardAddr(r.s.mosi),
     seen_data |-> CardData(r.s.mosi)]

\* the driver after a card operation that returned r
after_op(d, rec, r) ==
    [d EXCEPT !.cs_low = r.s.cs_low, !.ops = Append(@, rec),
              !.halt = IF r.kind \in {"panic", "hang"} THEN r.kind ELSE @]

\* the len=1 response carrying a status byte
send_status(d, st) == send_byte(send_byte(d, 1), st)

\* a status byte that takes every card that has not failed for a ready one
general_status_unless_failed(st) == IF st.tag = "Failed" THEN SdFault ELSE Ok

\* driver.rs:157-161: the status byte and the capacity STATUS(general) sends
general_status(st) ==
    IF st.tag = "Ready" THEN Ok
    ELSE IF st.tag = "Init" THEN SdNotReady
    ELSE SdFault
general_cap(st) == IF st.tag = "Ready" THEN u64(st.cap) ELSE u64_MAX

\* driver.rs:151-181
handle_status(d, mode, ans) ==
    IF mode = CMD_STATUS_GENERAL
    THEN send_dword_le(
             send_byte(send_byte(send_byte(d, 10), general_status(d.status)), 0),
             general_cap(d.status))
    ELSE IF mode = CMD_STATUS_INIT
    THEN Let(init(Bus(ans, d.cs_low)), LAMBDA r :
         Let([after_op(d, CardOp("init", U32(0, 0, 0, 0), <<>>, ans, r), r)
                 EXCEPT !.status = r.status], LAMBDA d1 :
             IF r.kind = "ok" THEN send_status(d1, Ok)
             ELSE IF r.kind = "err" THEN send_status(d1, StatusFrom(r.err))
             ELSE d1))
    ELSE d

\* driver.rs:183-203
handle_read(d, lba, ans) ==
    Let(read_sector(Bus(ans, d.cs_low), as_u32(lba)), LAMBDA r :
    Let(after_op(d, CardOp("read", as_u32(lba), <<>>, ans, r), r), LAMBDA d1 :
        IF r.kind = "ok" THEN send_bytes(send_status(d1, Ok), r.val)
        ELSE send_status(d1, StatusFrom(r.err))))

\* handle_write_begin without the readiness test of driver.rs:206
handle_write_begin_unchecked(d, lba) ==
    send_status([d EXCEPT !.write = PendingWrite(lba, 0)], Ok)

\* driver.rs:205-219
handle_write_begin(d, lba) ==
    IF d.status.tag = "Ready"
    THEN send_status([d EXCEPT !.write = PendingWrite(lba, 0)], Ok)
    ELSE send_status(d, SdNotReady)

\* driver.rs:237-252
handle_write_done(d, ans) ==
    IF d.write.some
    THEN Let(write_sector(Bus(ans, d.cs_low), as_u32(d.write.lba), d.WRITEBUF),
             LAMBDA r :
         Let(after_op(d, CardOp("write", as_u32(d.write.lba), d.WRITEBUF, ans, r), r),
             LAMBDA d1 :
             IF r.kind = "hang" THEN d1
             ELSE [send_status(d1, IF r.kind = "ok" THEN Ok ELSE StatusFrom(r.err))
                     EXCEPT !.write = NoWrite]))
    ELSE [send_status(d, SerialFault) EXCEPT !.write = NoWrite]

\* handle_write_byte that takes the session out of self.write before the
\* commit
handle_write_byte_take(d, b, ans) ==
    IF d.write.some
    THEN IF d.write.off = SectorSize THEN [d EXCEPT !.halt = "panic"]
         ELSE Let([d EXCEPT !.WRITEBUF[d.write.off + 1] = b, !.write.off = @ + 1],
                  LAMBDA d1 : IF d1.write.off = SectorSize
                              THEN handle_write_done([d1 EXCEPT !.write = NoWrite], ans)
                              ELSE d1)
    ELSE d

\* handle_write_byte with the test of driver.rs:230 one byte late
handle_write_byte_late_commit(d, b, ans) ==
    IF d.write.some
    THEN IF d.write.off = SectorSize THEN [d EXCEPT !.halt = "panic"]
         ELSE Let([d EXCEPT !.WRITEBUF[d.write.off + 1] = b, !.write.off = @ + 1],
                  LAMBDA d1 : IF d1.write.off = SectorSize + 1
                              THEN handle_write_done(d1, ans)
                              ELSE d1)
    ELSE d

\* driver.rs:221-235
handle_write_byte(d, b, ans) ==
    IF d.write.some
    THEN IF d.write.off = SectorSize THEN [d EXCEPT !.halt = "panic"]
         ELSE Let([d EXCEPT !.WRITEBUF[d.write.off + 1] = b, !.write.off = @ + 1],
                  LAMBDA d1 : IF d1.write.off = SectorSize
                              THEN handle_write_done(d1, ans)
                              ELSE d1)
    ELSE d

\* driver.rs:254-260
handle_command(d, c, ans) ==
    CASE c.op = "Status" -> handle_status(d, c.mode, ans)
      [] c.op = "Read" -> handle_read(d, c.lba, ans)
      [] c.op = "Write" -> handle_write_begin(d, c.lba)

\* the terminator without the `self.cmd_len = 0` of driver.rs:285
end_of_frame_keep(d, ans) ==
    IF d.cmd_len = 0 THEN d
    ELSE Let(try_from(SubSeq(d.cmd_buffer, 1, d.cmd_len)), LAMBDA c :
             IF c.kind = "panic" THEN [d EXCEPT !.halt = "panic"]
             ELSE IF c.kind = "ok"
             THEN handle_command([d EXCEPT !.cmd = c.cmd], c.cmd, ans)
             ELSE d)

\* driver.rs:277-286: the terminator outside payload mode
end_of_frame(d, ans) ==
    IF d.cmd_len = 0 THEN d
    ELSE Let(try_from(SubSeq(d.cmd_buffer, 1, d.cmd_len)), LAMBDA c :
             IF c.kind = "panic" THEN [d EXCEPT !.halt = "panic"]
             ELSE Let(IF c.kind = "ok"
                      THEN handle_command([d EXCEPT !.cmd = c.cmd], c.cmd, ans)
                      ELSE d,
                      LAMBDA d1 : IF d1.halt # "run" THEN d1
                                  ELSE [d1 EXCEPT !.cmd_len = 0, !.cmd_buffer = <<>>]))

\* the accumulation without the reset of driver.rs:288-290
accumulate_no_reset(d, byte) ==
    IF d.cmd_len >= CmdBufLen THEN [d EXCEPT !.halt = "panic"]
    ELSE [d EXCEPT !.cmd_buffer = Append(SubSeq(@, 1, d.cmd_len), byte),
                   !.cmd_len = @ + 1]

\* driver.rs:288-292: a byte of a command.  cmd_buffer holds the bytes
\* cmd_buffer[0..cmd_len] of the code's array: the bytes beyond cmd_len are
\* never read (the parser is given the slice [0..cmd_len]) and are
\* overwritten before cmd_len passes them.  A store at an index the array
\* does not have panics.
accumulate(d, byte) ==
    Let(IF d.cmd_len = CmdBufLen THEN [d EXCEPT !.cmd_len = 0, !.cmd_buffer = <<>>]
        ELSE d, LAMBDA d1 :
        IF d1.cmd_len >= CmdBufLen THEN [d1 EXCEPT !.halt = "panic"]
        ELSE [d1 EXCEPT !.cmd_buffer = Append(SubSeq(@, 1, d1.cmd_len), byte),
                        !.cmd_len = @ + 1])

\* the loop body with the terminator test ahead of the pending-write test
poll_byte_terminator_first(d, byte, ans) ==
    IF byte = CMD_END
    THEN end_of_frame([d EXCEPT !.resp = <<>>, !.ops = <<>>, !.cmd = NoCmd,
                                !.in = byte], ans)
    ELSE IF d.write.some
    THEN handle_write_byte([d EXCEPT !.resp = <<>>, !.ops = <<>>, !.cmd = NoCmd,
                                     !.in = byte], byte, ans)
    ELSE accumulate([d EXCEPT !.resp = <<>>, !.ops = <<>>, !.cmd = NoCmd,
                              !.in = byte], byte)

\* driver.rs:271-293: the body of poll's loop for one received byte
poll_byte(d, byte, ans) ==
    IF d.write.some
    THEN handle_write_byte([d EXCEPT !.resp = <<>>, !.ops = <<>>, !.cmd = NoCmd,
                                     !.in = byte], byte, ans)
    ELSE IF byte = CMD_END
    THEN end_of_frame([d EXCEPT !.resp = <<>>, !.ops = <<>>, !.cmd = NoCmd,
                                !.in = byte], ans)
    ELSE accumulate([d EXCEPT !.resp = <<>>, !.ops = <<>>, !.cmd = NoCmd,
                              !.in = byte], byte)

(* ------------------------------------------------------------------ *)
(* The state                                                          *)
(* ------------------------------------------------------------------ *)
VARIABLES
    status,      \* sd.status
    cs_low,      \* chip-select is asserted (driven low)
    cmd_buffer,  \* the accumulated command bytes, cmd_buffer[0..cmd_len]
    cmd_len,
    write,       \* the pending write session
    WRITEBUF,    \* the payload scratch buffer
    halt,        \* "run", or "panic" / "hang" once the firmware has stopped
    phase,       \* "new" until the first operation on the card or the link
    card,        \* the geometry register of the card in the slot
    disk,        \* the sectors the card holds
    in,          \* the byte the last step processed (NoByte: none)
    cmd,         \* the command the last step dispatched
    ops,         \* the card operations the last step ran
    resp,        \* the bytes the last step sent to the host
    payload,     \* history: the payload bytes of the pending session, as they came
    oversized,   \* history: the frame being received has overflowed cmd_buffer
    shadow       \* history: per sector, the buffer of the last write_sector if
                 \* it returned Ok, <<>> if none did

vars == <<status, cs_low, cmd_buffer, cmd_len, write, WRITEBUF, halt, phase,
          card, disk, in, cmd, ops, resp, payload, oversized, shadow>>

NoByte == 0 - 1

Self == [status |-> status, cs_low |-> cs_low, cmd_buffer |-> cmd_buffer,
         cmd_len |-> cmd_len, write |-> write, WRITEBUF |-> WRITEBUF,
         halt |-> halt, in |-> in, cmd |-> cmd, ops |-> ops, resp |-> resp]

Become(d) ==
    /\ status' = d.status
    /\ cs_low' = d.cs_low
    /\ cmd_buffer' = d.cmd_buffer
    /\ cmd_len' = d.cmd_len
    /\ write' = d.write
    /\ WRITEBUF' = d.WRITEBUF
    /\ halt' = d.halt
    /\ in' = d.in
    /\ cmd' = d.cmd
    /\ ops' = d.ops
    /\ resp' = d.resp

\* the card keeps the data of a write it accepted
StoreKinds == {"accept", "accept_stuck", "late_resp", "spi_error_busy"}
RECURSIVE Shadow(_, _)
Shadow(sh, os) ==
    IF os = <<>> THEN sh
    ELSE LET o == Head(os)
         IN  Shadow(IF o.op = "write" /\ o.addr \in DiskAddrs
                    THEN [sh EXCEPT ![o.addr] = IF o.kind = "ok" THEN o.buf ELSE <<>>]
                    ELSE sh, Tail(os))

RECURSIVE CardStore(_, _)
CardStore(dsk, os) ==
    IF os = <<>> THEN dsk
    ELSE LET o == Head(os)
         IN  CardStore(IF o.op = "write" /\ o.ans \in StoreKinds
                          /\ o.seen_addr \in DiskAddrs /\ o.seen_data # <<>>
                       THEN [dsk EXCEPT ![o.seen_addr] = o.seen_data]
                       ELSE dsk, Tail(os))

\* an answer the card in the slot can give to what it was sent: it serves
\* the sector it was asked for and accepts data only for a sector it has
Coherent(os, ans) ==
    \A i \in 1..Len(os) :
        /\ os[i].ans = "data" =>
              os[i].seen_cmd = 64 + 17 /\ os[i].seen_addr = ans.addr
        /\ os[i].ans \in StoreKinds =>
              os[i].seen_cmd = 64 + 24 /\ InRange(card, os[i].seen_addr)
                 /\ os[i].seen_addr \in DiskAddrs

\* the bytes the host sends: frames of the protocol, cut short or padded
\* at will, unknown opcodes, and payloads made of terminators and opcodes
HostOpcodes == {CMD_STATUS, CMD_READ, CMD_WRITE, 5}
HostModes == {CMD_STATUS_GENERAL, CMD_STATUS_INIT, 2}
AddrTop == {0, 1}
\* a payload: its first byte an opcode or a terminator, its last a
\* terminator or an opcode, so that a payload can read as a STATUS(init)
\* frame or end like a READ frame
PayloadBytes ==
    IF write.off = 0 THEN {CMD_STATUS, CMD_END}
    ELSE IF write.off + 1 = SectorSize THEN {CMD_END, CMD_READ}
    ELSE {CMD_STATUS_INIT}
\* a frame with an address is padded by one byte at most, and so is what
\* follows the overflow of an oversized frame
MaxPadded == AddrFrameLen + 1
IsAddrFrame == cmd_len > 0 /\ cmd_len < CmdBufLen
                  /\ cmd_buffer[1] \in {CMD_READ, CMD_WRITE}
HostBytes ==
    IF write.some THEN PayloadBytes
    ELSE IF (IsAddrFrame \/ oversized) /\ cmd_len >= MaxPadded THEN {CMD_END}
    ELSE {CMD_END} \cup
         (IF cmd_len = 0 \/ cmd_len = CmdBufLen THEN HostOpcodes
          ELSE IF cmd_len = 1
          THEN (IF cmd_buffer[1] = CMD_STATUS THEN HostModes ELSE AddrLow)
          ELSE IF cmd_len = 4 /\ IsAddrFrame THEN AddrHigh
          ELSE IF cmd_len = 5 /\ IsAddrFrame THEN AddrTop
          ELSE {0})

Init ==
    /\ status = StatusInit
    /\ cs_low = TRUE
    /\ cmd_buffer = <<>>
    /\ cmd_len = 0
    /\ write = NoWrite
    /\ WRITEBUF = BlankSector
    /\ halt = "run"
    /\ phase = "new"
    /\ card \in Cards
    /\ disk = [a \in DiskAddrs |-> BlankSector]
    /\ in = NoByte
    /\ cmd = NoCmd
    /\ ops = <<>>
    /\ resp = <<>>
    /\ payload = <<>>
    /\ oversized = FALSE
    /\ shadow = [a \in DiskAddrs |-> <<>>]

\* main.rs:98: `sd.init().ok()` before the driver is built
boot(d, ans) ==
    Let(init(Bus(ans, d.cs_low)), LAMBDA r :
        [after_op([d EXCEPT !.ops = <<>>],
                  CardOp("init", U32(0, 0, 0, 0), <<>>, ans, r), r)
            EXCEPT !.status = r.status])

Boot ==
    /\ phase = "new" /\ halt = "run"
    /\ \E ans \in InitAnswers(card) : Become(boot(Self, ans))
    /\ phase' = "run"
    /\ UNCHANGED <<card, disk, payload, oversized, shadow>>

Stepped(d, ans) ==
    /\ Coherent(d.ops, ans)
    /\ Become(d)
    /\ disk' = CardStore(disk, d.ops)
    /\ shadow' = Shadow(shadow, d.ops)
    /\ payload' = IF write.some /\ d.write.some THEN Append(payload, d.in) ELSE <<>>
    /\ oversized' = IF write.some THEN oversized
                    ELSE IF d.in = CMD_END THEN FALSE
                    ELSE oversized \/ cmd_len = CmdBufLen
    /\ phase' = "run"
    /\ UNCHANGED card
Step(byte, ans) == Stepped(poll_byte(Self, byte, ans), ans)

\* poll, driver.rs:272-275: a byte of a write payload
PayloadByte ==
    /\ halt = "run" /\ write.some
    /\ \E byte \in HostBytes :
          \E ans \in (IF write.off + 1 = SectorSize THEN WriteAnswers ELSE {NoAnswer}) :
              Step(byte, ans)

\* the card operations a parsed frame sets off, and so the answers to pick
TerminatorAnswers(c) ==
    IF c.kind # "ok" THEN {NoAnswer}
    ELSE IF c.cmd.op = "Read" THEN ReadAnswers(disk)
    ELSE IF c.cmd.op = "Status" /\ c.cmd.mode = CMD_STATUS_INIT THEN InitAnswers(card)
    ELSE {NoAnswer}

\* poll, driver.rs:277-286: the frame terminator
Terminator ==
    /\ halt = "run" /\ ~write.some
    /\ \E ans \in TerminatorAnswers(try_from(SubSeq(cmd_buffer, 1, cmd_len))) :
          Step(CMD_END, ans)

\* poll, driver.rs:288-292: a byte of a command
CommandByte ==
    /\ halt = "run" /\ ~write.some
    /\ \E byte \in HostBytes \ {CMD_END} : Step(byte, NoAnswer)

Next == Boot \/ PayloadByte \/ Terminator \/ CommandByte

Spec == Init /\ [][Next]_vars

TypeOK ==
    /\ status.tag \in {"Init", "Ready", "Failed"}
    /\ cmd_len = Len(cmd_buffer)
    /\ halt \in {"run", "panic", "hang"}

(* ------------------------------------------------------------------ *)
(* The properties                                                     *)
(* ------------------------------------------------------------------ *)

\* the steps the properties speak of, told by the state they start in and
\* the byte they process
AtPayloadByte == halt = "run" /\ write.some
AtLastPayloadByte == AtPayloadByte /\ write.off + 1 = SectorSize
AtTerminator == halt = "run" /\ ~write.some /\ in' = CMD_END
Frame == SubSeq(cmd_buffer, 1, cmd_len)

\* C1: while a write session is pending, every received byte, the
\* terminator and the opcodes included, is stored in the payload buffer at
\* the session's offset and nowhere else; the step dispatches no command,
\* leaves the command buffer and the card status alone, and runs no card
\* operation but the write of the full sector; before the last byte it
\* sends nothing and only advances the offset.
C1_PayloadTakeover ==
    [][ AtPayloadByte =>
          /\ WRITEBUF' = [WRITEBUF EXCEPT ![write.off + 1] = in']
          /\ cmd' = NoCmd
          /\ cmd_len' = cmd_len /\ cmd_buffer' = cmd_buffer
          /\ status' = status
          /\ \A i \in 1..Len(ops') : ops'[i].op = "write"
          /\ write.off + 1 < SectorSize =>
                /\ ops' = <<>> /\ resp' = <<>>
                /\ write' = PendingWrite(write.lba, write.off + 1) ]_vars

\* C1: a terminator arrived as the first payload byte and was stored
C1_Witness ==
    /\ write.some /\ write.off = 1
    /\ in = CMD_END /\ WRITEBUF[1] = CMD_END
    /\ cmd = NoCmd /\ ops = <<>> /\ resp = <<>>

\* C2: the terminator of a 10-byte frame with opcode WRITE runs no card
\* operation and leaves the card status alone; with the card Ready it
\* answers <<1, Ok>> and opens a session for the frame's address at offset
\* 0, otherwise it answers <<1, SdNotReady>> and opens none; the command
\* buffer is empty afterwards.
C2_WriteDispatch ==
    [][ (AtTerminator /\ cmd_len = AddrFrameLen /\ cmd_buffer[1] = CMD_WRITE) =>
          /\ ops' = <<>> /\ status' = status /\ halt' = "run"
          /\ cmd_len' = 0
          /\ IF status.tag = "Ready"
             THEN /\ resp' = <<1, Ok>>
                  /\ write' = PendingWrite(SubSeq(cmd_buffer, 2, 9), 0)
             ELSE /\ resp' = <<1, SdNotReady>>
                  /\ write' = NoWrite ]_vars

\* C2: a WRITE for sector 1 has just opened a session
C2_Witness ==
    /\ in = CMD_END /\ cmd = CmdWrite(u64(1))
    /\ resp = <<1, Ok>>
    /\ write = PendingWrite(u64(1), 0)

\* C3: the last payload byte of a session runs write_sector once, with the
\* session's 64-bit address and the payload bytes in the order they came;
\* when the operation returns, one status response carries its result and
\* the session is gone.
C3_CommitAtTarget ==
    [][ AtLastPayloadByte =>
          /\ Len(ops') = 1 /\ ops'[1].op = "write"
          /\ ops'[1].buf = Append(payload, in')
          /\ ops'[1].addr \o <<0, 0, 0, 0>> = write.lba
          /\ ops'[1].kind \in {"ok", "err"} =>
                /\ write' = NoWrite
                /\ resp' = <<1, IF ops'[1].kind = "ok" THEN Ok
                                ELSE StatusFrom(ops'[1].err)>> ]_vars

\* C4: a read of a sector that the card serves, after a write_sector of
\* that sector that returned Ok and no later write of it, returns Ok and
\* the response carries Ok and the bytes that write_sector was given.
C4_RoundTrip ==
    (/\ Len(ops) = 1 /\ ops[1].op = "read" /\ ops[1].ans = "data"
     /\ ops[1].addr \in DOMAIN shadow
     /\ shadow[ops[1].addr] # <<>>)
    => /\ ops[1].kind = "ok"
       /\ resp = <<1, Ok>> \o shadow[ops[1].addr]

\* C4: a sector written with a payload that starts with a terminator was
\* read back
C4_Witness ==
    /\ Len(ops) = 1 /\ ops[1].op = "read" /\ ops[1].kind = "ok"
    /\ ops[1].addr \in DOMAIN shadow
    /\ Len(shadow[ops[1].addr]) = SectorSize
    /\ shadow[ops[1].addr][1] = CMD_END
    /\ resp = <<1, Ok>> \o shadow[ops[1].addr]

\* the 22-bit size field of a v2 geometry register
SizeField(csd) == (csd[8] % 64) * 65536 + csd[9] * 256 + csd[10]

\* C5: the capacity of a Ready card is that of the register's size
\* field f, (f + 1) * 524288 bytes, whether the code counts it in bytes or
\* in sectors of 512 bytes.
C5_CapacityOfField ==
    status.tag = "Ready" =>
        \/ status.cap % 524288 = 0 /\ status.cap \div 524288 = SizeField(card) + 1
        \/ status.cap % 1024 = 0 /\ status.cap \div 1024 = SizeField(card) + 1

\* C6: the terminator of the frame <<STATUS, general>> runs no card
\* operation, leaves the card status, the chip select and the card alone,
\* and sends 10 bytes whose status is Ok exactly when the card is Ready,
\* SdNotReady when it is uninitialized and SdFault when it has failed.
C6_StatusGeneral ==
    [][ (AtTerminator /\ Frame = <<CMD_STATUS, CMD_STATUS_GENERAL>>) =>
          /\ Len(resp') = 11 /\ resp'[1] = 10
          /\ resp'[2] = Ok <=> status.tag = "Ready"
          /\ status.tag = "Init" => resp'[2] = SdNotReady
          /\ status.tag = "Failed" => resp'[2] = SdFault
          /\ ops' = <<>>
          /\ status' = status /\ cs_low' = cs_low /\ disk' = disk ]_vars

\* C6: STATUS(general) was answered SdNotReady before any init
C6_Witness ==
    /\ in = CMD_END /\ cmd = CmdStatus(CMD_STATUS_GENERAL)
    /\ status.tag = "Init"
    /\ resp[2] = SdNotReady
    /\ ops = <<>>

\* C7: the terminator of a frame of more than CmdBufLen bytes dispatches
\* no command, sends nothing and runs no card operation.
C7_OversizedDropped ==
    [][ (AtTerminator /\ oversized) =>
          /\ cmd' = NoCmd
          /\ resp' = <<>>
          /\ ops' = <<>> ]_vars

\* the frames C8 calls malformed
Malformed(f) ==
    \/ f = <<>>
    \/ f # <<>> /\ f[1] = CMD_STATUS /\ Len(f) # StatusFrameLen
    \/ f # <<>> /\ f[1] \in {CMD_READ, CMD_WRITE} /\ Len(f) # AddrFrameLen
    \/ f # <<>> /\ f[1] \notin {CMD_STATUS, CMD_READ, CMD_WRITE}

\* C8: the terminator of a malformed frame sends nothing, runs no card
\* operation, leaves the card status and the write session alone, empties
\* the command buffer and leaves the firmware running.
C8_MalformedDropped ==
    [][ (AtTerminator /\ Malformed(Frame)) =>
          /\ resp' = <<>> /\ ops' = <<>>
          /\ status' = status /\ write' = write
          /\ cmd_len' = 0
          /\ halt' = "run" ]_vars

\* a 64-bit sector address the card in the slot does not have
OutOfRange(lba) ==
    ~(/\ \A i \in 5..8 : lba[i] = 0
      /\ InRange(card, SubSeq(lba, 1, 4)))
Refused == { <<1, SdFault>>, <<1, SdTransportFault>> }

\* C9: a READ of a sector the card does not have, and the last payload
\* byte of a WRITE to one, are answered SdFault or SdTransportFault, and
\* the firmware does not panic.
C9_OutOfRangeRefused ==
    [][ /\ (/\ AtTerminator /\ cmd_len = AddrFrameLen /\ cmd_buffer[1] = CMD_READ
            /\ OutOfRange(SubSeq(cmd_buffer, 2, 9)))
           => (halt' # "panic" /\ resp' \in Refused)
        /\ (AtLastPayloadByte /\ OutOfRange(write.lba))
           => (halt' # "panic" /\ resp' \in Refused) ]_vars

\* the answers of a card that lets a bounded wait run out
Exhausting == {"late_r1", "late_token", "late_resp", "never_ready", "late_csd",
               "absent"}

\* C10: an operation whose bounded wait the card lets run out returns
\* Timeout, and one whose waits the card answers in time, on the last
\* attempt at the latest, returns Ok.
C10_WaitsEndInTimeout ==
    \A i \in 1..Len(ops) :
        /\ ops[i].ans \in Exhausting =>
              ops[i].kind = "err" /\ ops[i].err = "Timeout"
        /\ ops[i].ans \in {"data", "accept"} => ops[i].kind = "ok"
        /\ (ops[i].ans = "ready" /\ card[1] = 64) => ops[i].kind = "ok"

\* C11: when a step has run init, init returned, and the card status is
\* Ready exactly when it returned Ok and Failed exactly when it returned an
\* error.
C11_InitOutcome ==
    \A i \in 1..Len(ops) :
        ops[i].op = "init" =>
            /\ ops[i].kind \in {"ok", "err"}
            /\ status.tag = "Ready" <=> ops[i].kind = "ok"
            /\ status.tag = "Failed" <=> ops[i].kind = "err"

\* the step is the terminator of a well-formed STATUS(init) or READ frame,
\* or the last payload byte of a WRITE
AtCardCommand ==
    \/ AtTerminator /\ Frame = <<CMD_STATUS, CMD_STATUS_INIT>>
    \/ AtTerminator /\ cmd_len = AddrFrameLen /\ cmd_buffer[1] = CMD_READ
    \/ AtLastPayloadByte

\* C12: a step that runs a card operation for the host sends a response
\* that starts with the length 1 and the status of the operation's result,
\* Ok or the status mapped from its error, and leaves the firmware running.
C12_CardErrorsNotFatal ==
    [][ AtCardCommand =>
          /\ halt' = "run"
          /\ Len(ops') = 1 /\ ops'[1].kind \in {"ok", "err"}
          /\ Len(resp') >= 2 /\ resp'[1] = 1
          /\ ops'[1].kind = "ok" => resp'[2] = Ok
          /\ (ops'[1].kind = "err" /\ ops'[1].err = "SpiError") =>
                resp' = <<1, SdTransportFault>>
          /\ (ops'[1].kind = "err" /\ ops'[1].err = "Timeout") =>
                resp' = <<1, SdTimeout>>
          /\ (ops'[1].kind = "err" /\ ops'[1].err = "InvalidResponse") =>
                resp' = <<1, SdFault>> ]_vars

\* C13: the firmware never stops processing input.
C13_NoDeadEnd == halt = "run"

\* C14: the terminator of a READ or WRITE frame received while the card is
\* not Ready is answered <<1, SdNotReady>> and runs no card operation.
C14_NotReadyRefused ==
    [][ (/\ AtTerminator /\ cmd_len = AddrFrameLen
         /\ cmd_buffer[1] \in {CMD_READ, CMD_WRITE}
         /\ status.tag # "Ready") =>
          /\ resp' = <<1, SdNotReady>>
          /\ ops' = <<>> ]_vars

\* C15: a pending session has received fewer than SectorSize bytes
\* whenever the firmware is between two bytes; a payload byte never trips
\* the assertion of handle_write_byte nor falls outside the buffer, and as
\* long as the session lives its address is unchanged and its offset grows
\* by one.
C15_SingleSession ==
    [][ /\ (halt' = "run" /\ write'.some) => write'.off \in 0..(SectorSize - 1)
        /\ AtPayloadByte =>
              /\ halt' # "panic"
              /\ write.off < SectorSize
              /\ write'.some =>
                    (write'.lba = write.lba /\ write'.off = write.off + 1) ]_vars

\* C15: a session for sector 1 lacks one byte
C15_Witness ==
    /\ halt = "run"
    /\ write = PendingWrite(u64(1), SectorSize - 1)
    /\ Len(payload) = SectorSize - 1

\* C16: the command length stays within the buffer; a command byte is
\* stored without a panic at the index the length had, or at index 0 after
\* the length was reset because the buffer was full, and the bytes before it
\* are kept.
C16_CommandBufferBound ==
    [][ /\ cmd_len' \in 0..CmdBufLen
        /\ (halt = "run" /\ ~write.some /\ in' \in Byte \ {CMD_END}) =>
              /\ halt' = "run"
              /\ cmd_len' \in 1..CmdBufLen
              /\ cmd_buffer'[cmd_len'] = in'
              /\ IF cmd_len = CmdBufLen THEN cmd_len' = 1
                 ELSE /\ cmd_len' = cmd_len + 1
                      /\ SubSeq(cmd_buffer', 1, cmd_len) = cmd_buffer ]_vars

\* C16: a byte that arrived with the buffer full is the only one held
C16_Witness ==
    /\ halt = "run" /\ oversized
    /\ cmd_len = 1 /\ cmd_buffer = <<in>>

\* C17: when the step's card operation has returned, chip-select is
\* released.
C17_ChipSelectReleased ==
    (halt = "run" /\ ops # <<>>) => ~cs_low

\* C18: while a write session is pending no command byte is held, and none
\* is held when the step that committed a session is over.
C18_CleanFraming ==
    /\ write.some => (cmd_len = 0 /\ cmd_buffer = <<>>)
    /\ (halt = "run" /\ ops # <<>> /\ ops[1].op = "write") =>
          (cmd_len = 0 /\ ~write.some)

\* C18: an opcode byte arrived as the first payload byte and no command
\* byte is held
C18_Witness ==
    /\ write.some /\ write.off = 1
    /\ in = CMD_STATUS /\ payload = <<CMD_STATUS>>
    /\ cmd_len = 0

\* C19: the status byte of a response is never SerialFault.
C19_NoSerialFault ==
    Len(resp) >= 2 => resp[2] # SerialFault

\* C19: a commit that the card refused was answered SdFault
C19_Witness ==
    /\ Len(ops) = 1 /\ ops[1].op = "write" /\ ops[1].ans = "crc_reject"
    /\ resp = <<1, SdFault>>
    /\ ~write.some

(* ------------------------------------------------------------------ *)
(* poll over several bytes                                            *)
(* ------------------------------------------------------------------ *)
\* driver.rs:263: the bytes one poll reads at most (16 in the code)
MaxChunk == 3

\* the driver, the card and the history as one value
World == [d |-> Self, disk |-> disk, payload |-> payload,
          oversized |-> oversized, shadow |-> shadow]

\* the bytes the host sends next: the frames of the protocol, whole or cut
\* short by a terminator, an unknown opcode, and payloads as above
ChunkBytesAt(w) ==
    IF w.d.write.some
    THEN (IF w.d.write.off = 0 THEN {CMD_STATUS, CMD_END}
          ELSE IF w.d.write.off + 1 = SectorSize THEN {CMD_END, CMD_READ}
          ELSE {CMD_STATUS_INIT})
    ELSE IF w.d.cmd_len = 0 THEN HostOpcodes \cup {CMD_END}
    ELSE IF w.d.cmd_buffer[1] = CMD_STATUS
    THEN (IF w.d.cmd_len = 1 THEN {CMD_STATUS_GENERAL, CMD_STATUS_INIT} ELSE {CMD_END})
    ELSE IF w.d.cmd_len = 1 THEN AddrLow \cup {CMD_END}
    ELSE IF w.d.cmd_len < AddrFrameLen THEN {0}
    ELSE {CMD_END}

\* of the card's answers, for each operation the one that succeeds at once
\* and one that fails
ChunkKinds == {"data", "reject", "accept", "crc_reject", "ready", "not_idle"}
Prompt(A) ==
    { a \in A : /\ a.kind \in ChunkKinds
                /\ \A b \in A : b.kind = a.kind => Len(a.pre) <= Len(b.pre) }

\* the answers the card can give to the operation the byte sets off
AnswersAt(w, byte) ==
    IF w.d.write.some
    THEN (IF w.d.write.off + 1 = SectorSize THEN Prompt(WriteAnswers) ELSE {NoAnswer})
    ELSE IF byte # CMD_END THEN {NoAnswer}
    ELSE Let(try_from(SubSeq(w.d.cmd_buffer, 1, w.d.cmd_len)), LAMBDA c :
             IF c.kind # "ok" THEN {NoAnswer}
             ELSE IF c.cmd.op = "Read" THEN Prompt(ReadAnswers(w.disk))
             ELSE IF c.cmd.op = "Status" /\ c.cmd.mode = CMD_STATUS_INIT
             THEN Prompt(InitAnswers(card))
             ELSE {NoAnswer})

\* driver.rs:271-293 with the card: one byte of the loop
StepAt(w, byte, ans) ==
    Let(poll_byte(w.d, byte, ans), LAMBDA d1 :
        [d |-> d1,
         disk |-> CardStore(w.disk, d1.ops),
         payload |-> IF w.d.write.some /\ d1.write.some
                     THEN Append(w.payload, byte) ELSE <<>>,
         oversized |-> IF w.d.write.some THEN w.oversized
                       ELSE IF byte = CMD_END THEN FALSE
                       ELSE w.oversized \/ w.d.cmd_len = CmdBufLen,
         shadow |-> Shadow(w.shadow, d1.ops)])

\* what the host sees of a run of bytes: the commands dispatched, the card
\* operations run and the bytes sent
NoTrace == [cmds |-> <<>>, ops |-> <<>>, resp |-> <<>>]
Traced(tr, d) ==
    [cmds |-> IF d.cmd = NoCmd THEN tr.cmds ELSE Append(tr.cmds, d.cmd),
     ops |-> tr.ops \o d.ops,
     resp |-> tr.resp \o d.resp]

\* driver.rs:270-293: `for &byte in &buf[0..count]`; a panic or a loop that
\* never ends leaves the rest of the bytes unread
RECURSIVE poll_loop(_, _, _)
poll_loop(w, chunk, tr) ==
    IF chunk = <<>> \/ w.d.halt # "run" THEN [w |-> w, tr |-> tr]
    ELSE LET w1 == StepAt(w, Head(chunk).byte, Head(chunk).ans)
         IN  poll_loop(w1, Tail(chunk), Traced(tr, w1.d))

\* a poll that starts every invocation with an empty command buffer
poll_fresh_frame(w, chunk, tr) ==
    IF chunk = <<>> THEN [w |-> w, tr |-> tr]
    ELSE poll_loop([w EXCEPT !.d.cmd_len = 0, !.d.cmd_buffer = <<>>], chunk, tr)

\* driver.rs:262-297: one invocation of poll on the bytes it reads
poll(w, chunk, tr) == poll_loop(w, chunk, tr)

\* The runs of n bytes, with the card's answers, that can follow w, built
\* one byte at a time: Longer(S) extends every run of S whose end state
\* still runs by every byte and answer that can follow it.
Longer(S) ==
    UNION { IF x.w.d.halt # "run" THEN {x}
            ELSE { y \in { [c |-> Append(x.c, [byte |-> p[1], ans |-> p[2]]),
                            w |-> StepAt(x.w, p[1], p[2])] :
                              p \in UNION { {b} \X AnswersAt(x.w, b) :
                                                b \in ChunkBytesAt(x.w) } } :
                       Coherent(y.w.d.ops, y.c[Len(y.c)].ans) } :
            x \in S }
RECURSIVE Runs(_, _)
Runs(S, n) == IF n = 0 THEN S ELSE Runs(Longer(S), n - 1)
Chunks(w, n) == { x.c : x \in Runs({[c |-> <<>>, w |-> w]}, n) }

Polled(r) ==
    /\ Become(r.w.d)
    /\ disk' = r.w.disk
    /\ payload' = r.w.payload
    /\ oversized' = r.w.oversized
    /\ shadow' = r.w.shadow
    /\ phase' = "run"
    /\ UNCHANGED card

\* main.rs:102-105: one turn of the main loop that finds bytes to read
Poll ==
    /\ halt = "run"
    /\ \E n \in 1..MaxChunk : \E c \in Chunks(World, n) :
          Polled(poll(World, c, NoTrace))

\* the card in the slot has the v2 register with size field 511
ChunkInit == Init /\ card = Csd(64, 0, 1, 255)

\* main.rs:98: the init before the loop
ChunkBoot ==
    /\ phase = "new" /\ halt = "run"
    /\ \E ans \in Prompt(InitAnswers(card)) : Become(boot(Self, ans))
    /\ phase' = "run"
    /\ UNCHANGED <<card, disk, payload, oversized, shadow>>

ChunkNext == ChunkBoot \/ Poll

ChunkSpec == ChunkInit /\ [][ChunkNext]_vars

\* bw is what polls of one byte each made of the run c that followed the
\* present state: one poll of all of c makes the same of it, and so it is
\* for every run that extends c by up to n bytes
RECURSIVE Agree(_, _, _)
Agree(bw, c, n) ==
    /\ poll(World, c, NoTrace) = bw
    /\ (n > 0 /\ bw.w.d.halt = "run") =>
          \A b \in ChunkBytesAt(bw.w) : \A a \in AnswersAt(bw.w, b) :
              Let(poll(bw.w, <<[byte |-> b, ans |-> a]>>, bw.tr), LAMBDA r :
                  Coherent(r.w.d.ops, a) =>
                      Agree(r, Append(c, [byte |-> b, ans |-> a]), n - 1))

\* C20: one poll of a run of up to MaxChunk bytes leaves the driver and the
\* card as polls of one byte each do, with the same commands dispatched,
\* card operations run and bytes sent; so every way of cutting a stream
\* into polls of up to MaxChunk bytes gives what the cut into single bytes
\* gives.
C20_ChunkingIndependence ==
    Agree([w |-> World, tr |-> NoTrace], <<>>, MaxChunk)

\* C20: a poll ended inside a payload, one byte before its end
C20_Witness ==
    /\ halt = "run" /\ write.some
    /\ write.off = SectorSize - 1
    /\ WRITEBUF[1] = CMD_END
    /\ status.tag = "Ready"


=============================================================================
